---------------------------- MODULE Spec2Model ----------------------------
(***************************************************************************)
(* Payman service of the Lydia game bot: the TokenManager that keeps the   *)
(* application's service token (tokenManager.mjs) and the HTTP handlers    *)
(* of payman-service/index.mjs that use it.                                *)
(*                                                                         *)
(* Node.js runs one callback at a time, so every action below is the code  *)
(* between two suspension points (an await on the provider, on the file    *)
(* system, on the collaborator, a timer or a polling interval).            *)
(*                                                                         *)
(* Time is counted in minutes.  An access token is identified by the       *)
(* number of the provider call that issued it; 0 stands for a missing      *)
(* field (undefined), and the record of zeros for tokenData = null.        *)
(***************************************************************************)
EXTENDS Integers, Sequences, FiniteSets, TLC

\* ------------------------------------------------------------ bounds
\* Request slots 1..NProc, each used by one request or one timer firing.
NProc == 2
\* The clock stops advancing at MaxNow.
MaxNow == 2
\* Platform users 1..NUsers.
NUsers == 2
\* A provider response holds at most MaxArtifacts artifacts.
MaxArtifacts == 2
\* Where request slots are used again: at most MaxCalls provider token calls are
\* remembered at a time.
MaxCalls == 3

\* ------------------------------------------------- program constants
\* 15 * 60 * 1000 ms, in minutes
FifteenMinutes == 15
\* 60000 ms, in minutes
OneMinute == 1
\* expiresIn || 3600 (seconds), in minutes
DefaultExpiresIn == 60

VARIABLES
    now,         \* the wall clock (Date.now()), in minutes
    tokenData,   \* TokenManager.tokenData
    refreshing,  \* TokenManager.refreshing
    file,        \* the content of app-token.json
    timers,      \* the pending setTimeout callbacks of startRefreshTimer: their due times
    calls,       \* how many provider token calls the TokenManager has started
    outcome,     \* outcome[k]: how provider token call k ended
    env,         \* process.env: which settings are present
    linked,      \* the collaborator's users that have a payee link
    payees,      \* payees[u]: how many payees the provider holds for user u
    created,     \* created[u]: how many create-payee commands were sent for user u
    procs        \* the listen callback (0) and the request slots

vars == <<now, tokenData, refreshing, file, timers, calls, outcome, env,
          linked, payees, created, procs>>

\* The variables of the payee resolution
xvars == <<linked, payees, created>>

Procs == 0..NProc
Reqs == 1..NProc
Users == 1..NUsers

\* tokenData = null
NullToken == [accessToken |-> 0, expiresIn |-> 0, expiresAt |-> 0, refreshedAt |-> 0]

\* A token that an earlier run of the service left in app-token.json.
StoredToken == NProc + 3

\* A process: kind and pc say what it runs and where it stands; made counts the
\* provider token calls it started and sent its provider commands; code, checked,
\* needsPayeeId are the code of an exchange, whether the collaborator was asked and
\* the local needsPayeeId; body is the body of a charge or payout: whether it holds
\* accessToken, its amount (0: none), and whether it holds userId or payeeId;
\* asked is how its client.ask settled ("threw", "returned", or "none" so far),
\* command the command it sent and echo the command of its response.
IdleProc ==
    [kind |-> "none", pc |-> "idle", retry |-> FALSE,
     tok |-> -1, live |-> FALSE, threw |-> FALSE,
     resp |-> "none", sent |-> 0, joined |-> 0, rel |-> 0, made |-> 0, buf |-> NullToken,
     arts |-> <<>>, user |-> 0, tg |-> FALSE, payee |-> 0,
     code |-> FALSE, checked |-> FALSE, needsPayeeId |-> TRUE,
     body |-> [accessToken |-> FALSE, amount |-> 0, id |-> FALSE],
     asked |-> "none", command |-> <<>>, echo |-> <<>>]

Max(a, b) == IF a >= b THEN a ELSE b

\* ------------------------------------------------------ TokenManager

\* (a shouldRefreshToken() that always asks for a refresh)
ShouldRefreshAlways(td, t) == TRUE

\* shouldRefreshToken(), for the record td at time t
ShouldRefreshToken(td, t) ==
    IF td = NullToken \/ td.accessToken = 0 \/ td.expiresAt = 0
    THEN TRUE
    ELSE td.expiresAt <= t + FifteenMinutes

\* (a refreshToken() that never waits for the refresh in flight)
RefreshBusyNever == FALSE

\* refreshToken(): if (this.refreshing) ... wait
RefreshBusy == refreshing

\* refreshToken(): the record a successful provider response produces
NewTokenData(id, expIn, t) ==
    LET expiresIn == IF expIn = 0 THEN DefaultExpiresIn ELSE expIn
    IN  [accessToken |-> id, expiresIn |-> expiresIn,
         expiresAt |-> t + expiresIn, refreshedAt |-> t]

\* (a catch block that drops the record)
TokenDroppedOnFailure(td) == NullToken

\* refreshToken(), catch: what a failed refresh leaves in this.tokenData
TokenAfterFailure(td) == td

\* loadTokenFromFile(): JSON.parse of the file; a missing or unreadable file, and a
\* record whose expiresAt is no date (toISOString throws), leave tokenData = null
LoadedToken(f) == IF f = NullToken \/ f.expiresAt = 0 THEN NullToken ELSE f

\* (a startRefreshTimer() that sets no timer for a record that is already due)
TimersOnlyAhead(ts, td, t) ==
    IF td = NullToken \/ td.expiresAt = 0 \/ td.expiresAt - t - FifteenMinutes < OneMinute
    THEN ts
    ELSE Append(ts, td.expiresAt - FifteenMinutes)

\* startRefreshTimer(): the timers pending after the call
TimersAfterStart(ts, td, t) ==
    IF td = NullToken \/ td.expiresAt = 0
    THEN ts
    ELSE Append(ts, t + Max(td.expiresAt - t - FifteenMinutes, OneMinute))

\* refreshToken() up to its first await, called by a process whose record is q:
\* a waiter on the polling interval, or the owner of a new provider call
CallRefresh(q, busy, c) ==
    IF busy
    THEN [q EXCEPT !.pc = "waiting", !.joined = c]
    ELSE [q EXCEPT !.pc = "refreshing", !.joined = c + 1, !.made = q.made + 1]

\* The text of a command is the sequence of its fixed parts and of the values put
\* between them.  The values of the request and of process.env are named after
\* their fields: "userId", "payeeId", "description", "APP_PAYEE_ID", "APP_WALLET_ID".

\* (a /charge that sends the money the other way)
ChargeCommandReversed(amount, userId, appPayeeId, description) ==
    <<"send $", amount, " from wallet ", appPayeeId, " to payee ", userId,
      " for \"", description, "\"">>

\* POST /charge: const command = `send $${amount} from wallet ${userId} to payee ...`
ChargeCommand(amount, userId, appPayeeId, description) ==
    <<"send $", amount, " from wallet ", userId, " to payee ", appPayeeId,
      " for \"", description, "\"">>

\* POST /payout: const command = `send $${amount} from wallet ${APP_WALLET_ID} ...`
PayoutCommand(amount, appWalletId, payeeId, description) ==
    <<"send $", amount, " from wallet ", appWalletId, " to payee ", payeeId,
      " for \"", description, "\"">>

\* The command of the handler whose process is q
Command(q) ==
    IF q.kind = "charge"
    THEN ChargeCommand(q.body.amount, "userId", "APP_PAYEE_ID", "description")
    ELSE PayoutCommand(q.body.amount, "APP_WALLET_ID", "payeeId", "description")

\* (a handler that does not test the token getToken() returned)
AfterGetTokenUntested(q, o, td, t) ==
    IF o = "fail"
    THEN [q EXCEPT !.pc = "done", !.threw = TRUE, !.resp = "fail"]
    ELSE [q EXCEPT !.pc = "asking", !.tok = td.accessToken,
                   !.live = (td.expiresAt > t), !.sent = q.sent + 1,
                   !.command = Command(q)]

\* getToken(): return this.tokenData?.accessToken, and the handler's code up to
\* its provider command; o is how the awaited refreshToken() ended
AfterGetToken(q, o, td, t) ==
    IF o = "fail"
    THEN [q EXCEPT !.pc = "done", !.threw = TRUE, !.resp = "fail"]
    ELSE IF td.accessToken = 0
         THEN [q EXCEPT !.pc = "done", !.tok = 0, !.resp = "fail"]
         ELSE [q EXCEPT !.pc = "asking", !.tok = td.accessToken,
                        !.live = (td.expiresAt > t), !.sent = q.sent + 1,
                        !.command = Command(q)]

\* POST /refresh-token after await tokenManager.refreshToken()
RefreshTokenRespond(q, o, td) ==
    IF o = "fail" \/ td = NullToken
    THEN [q EXCEPT !.pc = "done", !.threw = (o = "fail"), !.resp = "fail"]
    ELSE [q EXCEPT !.pc = "done", !.resp = "ok", !.tok = td.accessToken,
                   !.live = (td.expiresAt > now)]

\* (a catch block that leaves the flag set)
FlagHeldAfterFailure == TRUE

\* refreshToken(), catch: this.refreshing = false
FlagAfterFailure == FALSE

\* initialize(): the catch block calls refreshToken() once more
InitRetries(q, o) == q.kind = "init" /\ o = "fail" /\ ~q.retry

\* The code that runs when the refreshToken() awaited by p settles with o, the
\* refreshing flag being false again; td is this.tokenData and oc the call outcomes
Finish(p, q0, o, td, oc) ==
    LET q == [q0 EXCEPT !.rel = IF q0.pc = "waiting" THEN calls ELSE q0.joined]
        again == InitRetries(q, o)
        q2 == CASE q.kind \in {"charge", "payout"} -> AfterGetToken(q, o, td, now)
                [] q.kind = "refresh" -> RefreshTokenRespond(q, o, td)
                [] q.kind = "init" ->
                     IF again
                     THEN CallRefresh([q EXCEPT !.retry = TRUE], FALSE, calls)
                     ELSE [q EXCEPT !.pc = "done", !.threw = (o = "fail")]
                [] OTHER -> [q EXCEPT !.pc = "done", !.threw = (o = "fail")]
    IN  /\ procs' = [procs EXCEPT ![p] = q2]
        /\ refreshing' = (again \/ (o = "fail" /\ FlagAfterFailure))
        /\ calls' = IF again THEN calls + 1 ELSE calls
        /\ outcome' = IF again THEN Append(oc, "pending") ELSE oc
        /\ timers' = IF q.kind = "init" /\ o # "fail"
                     THEN TimersAfterStart(timers, td, now)
                     ELSE timers

\* A process calls refreshToken() and suspends
EnterRefresh(p, q) ==
    /\ procs' = [procs EXCEPT ![p] = CallRefresh(q, RefreshBusy, calls)]
    /\ refreshing' = TRUE
    /\ calls' = IF RefreshBusy THEN calls ELSE calls + 1
    /\ outcome' = IF RefreshBusy THEN outcome ELSE Append(outcome, "pending")

\* ------------------------------------------------------------ actions

\* app.listen callback: tokenManager.initialize() up to the await of readFile
Listen ==
    /\ procs[0].pc = "idle"
    /\ env.clientCreds
    /\ procs' = [procs EXCEPT ![0] = [@ EXCEPT !.kind = "init", !.pc = "loading"]]
    /\ UNCHANGED <<now, tokenData, refreshing, file, timers, calls, outcome, env, xvars>>

\* initialize(): readFile settles; then shouldRefreshToken(), refreshToken() or
\* startRefreshTimer()
LoadDone ==
    /\ procs[0].pc = "loading"
    /\ LET td == LoadedToken(file)
       IN  /\ tokenData' = td
           /\ IF ShouldRefreshToken(td, now)
              THEN EnterRefresh(0, procs[0]) /\ UNCHANGED timers
              ELSE /\ procs' = [procs EXCEPT ![0] = [@ EXCEPT !.pc = "done"]]
                   /\ timers' = TimersAfterStart(timers, td, now)
                   /\ UNCHANGED <<refreshing, calls, outcome>>
    /\ UNCHANGED <<now, file, env, xvars>>

\* The server is listening, and p is the request slot to use next
Free(p) ==
    /\ procs[0].pc # "idle"
    /\ procs[p].pc = "idle"
    /\ \A o \in 1..(p - 1) : procs[o].pc # "idle"

\* getToken() as called by a handler, up to the first suspension
CallGetToken(p, q) ==
    IF ShouldRefreshToken(tokenData, now)
    THEN EnterRefresh(p, q)
    ELSE /\ procs' = [procs EXCEPT ![p] = AfterGetToken(q, "ok", tokenData, now)]
         /\ UNCHANGED <<refreshing, calls, outcome>>

\* (a /charge that does not test userId)
ChargeInvalidLax(amount, userId) == amount = 0

\* POST /charge: if (!amount || !userId)
ChargeInvalid(amount, userId) == amount = 0 \/ ~userId

\* POST /payout: if (!accessToken || !amount || !payeeId)
PayoutInvalid(accessToken, amount, payeeId) == ~accessToken \/ amount = 0 \/ ~payeeId

\* POST /charge up to its first suspension
ChargeStart(p, amount, userId) ==
    /\ Free(p)
    /\ LET q == [procs[p] EXCEPT !.kind = "charge",
                                 !.body = [accessToken |-> FALSE, amount |-> amount,
                                           id |-> userId]]
       IN  IF ChargeInvalid(amount, userId) \/ ~env.appPayee
           THEN /\ procs' = [procs EXCEPT ![p] = [q EXCEPT !.pc = "done", !.resp = "fail"]]
                /\ UNCHANGED <<refreshing, calls, outcome>>
           ELSE CallGetToken(p, q)
    /\ UNCHANGED <<now, tokenData, file, timers, env, xvars>>

\* POST /refresh-token up to its first suspension
RefreshTokenStart(p) ==
    /\ Free(p)
    /\ EnterRefresh(p, [procs[p] EXCEPT !.kind = "refresh"])
    /\ UNCHANGED <<now, tokenData, file, timers, env, xvars>>

\* (a timer that stays pending after it has fired, as a setInterval would)
TimersAfterFireKept(ts, i) == ts

\* setTimeout: the timer that fires is no longer pending
TimersAfterFire(ts, i) == SubSeq(ts, 1, i - 1) \o SubSeq(ts, i + 1, Len(ts))

\* The setTimeout callback of startRefreshTimer(): refreshToken() up to its first
\* suspension, then startRefreshTimer() again
TimerFire(i, p) ==
    /\ i \in DOMAIN timers
    /\ timers[i] <= now
    /\ Free(p)
    /\ EnterRefresh(p, [procs[p] EXCEPT !.kind = "timer"])
    /\ timers' = TimersAfterStart(TimersAfterFire(timers, i), tokenData, now)
    /\ UNCHANGED <<now, tokenData, file, env, xvars>>

\* client.getAccessToken() of refreshToken() settles: r.ok says whether it returned
\* a response holding an access token, r.expiresIn is its expiresIn (0: none)
ProviderTokenReturn(p, r) ==
    /\ procs[p].pc = "refreshing"
    /\ LET k == procs[p].joined
       IN  IF r.ok
           THEN LET td == NewTokenData(k, r.expiresIn, now)
                IN  /\ tokenData' = td
                    /\ outcome' = [outcome EXCEPT ![k] = "ok"]
                    /\ procs' = [procs EXCEPT ![p] = [@ EXCEPT !.pc = "saving", !.buf = td]]
                    /\ UNCHANGED <<refreshing, calls, timers>>
           ELSE /\ tokenData' = TokenAfterFailure(tokenData)
                /\ Finish(p, procs[p], "fail", tokenData', [outcome EXCEPT ![k] = "fail"])
    /\ UNCHANGED <<now, file, env, xvars>>

\* saveTokenToFile(): writeFile settles (an error is logged and swallowed); then
\* refreshToken() resets the flag and returns
SaveDone(p, ok) ==
    /\ procs[p].pc = "saving"
    /\ file' = IF ok THEN procs[p].buf ELSE file
    /\ Finish(p, [procs[p] EXCEPT !.buf = NullToken], "ok", tokenData, outcome)
    /\ UNCHANGED <<now, tokenData, env, xvars>>

\* refreshToken(): the 500 ms polling interval of a waiter finds the flag false
Poll(p) ==
    /\ procs[p].pc = "waiting"
    /\ ~refreshing
    /\ Finish(p, procs[p], "ok", tokenData, outcome)
    /\ UNCHANGED <<now, tokenData, file, env, xvars>>

\* Time passes
Tick ==
    /\ now < MaxNow
    /\ now' = now + 1
    /\ UNCHANGED <<tokenData, refreshing, file, timers, calls, outcome, env, xvars, procs>>

\* ------------------------------------------------ outcome classification
\* The text of an artifact is the set of the phrases below that occur in it;
\* the empty set is a missing or empty content, or a text holding none of them.

ChargePositive == {"Transaction completed", "Memo", "Payment Processed",
                   "Payment Initiated", "payment sent"}
ChargeNegative == {"error", "failed", "difficulty", "insufficient funds", "unable"}
PayoutPositive == {"Transaction completed", "Memo", "Payment Processed",
                   "Payment Initiated"}
Phrases == ChargePositive \cup ChargeNegative \cup {"Balance"}

\* artifact.content.includes(t) for some t of ts
IncludesAny(content, ts) == content # {} /\ content \cap ts # {}

\* (a /charge that looks for a positive term in every artifact)
ChargeScanAnyPositive(arts, i) ==
    \E j \in i..Len(arts) : IncludesAny(arts[j], ChargePositive)

\* POST /charge: the loop over result.artifacts, from artifact i on
RECURSIVE ChargeScan(_, _)
ChargeScan(arts, i) ==
    IF i > Len(arts) THEN FALSE
    ELSE IF IncludesAny(arts[i], ChargePositive) THEN TRUE
    ELSE IF IncludesAny(arts[i], ChargeNegative) THEN FALSE
    ELSE ChargeScan(arts, i + 1)

\* POST /payout: the loop over result.artifacts, from artifact i on
RECURSIVE PayoutScan(_, _)
PayoutScan(arts, i) ==
    IF i > Len(arts) THEN FALSE
    ELSE IF IncludesAny(arts[i], PayoutPositive) THEN TRUE
    ELSE PayoutScan(arts, i + 1)

\* (a payout whose transactionSuccessful starts as true)
ClassifyPayoutOpen(k, arts) ==
    CASE k = "charge" -> ChargeScan(arts, 1)
      [] OTHER -> TRUE

\* transactionSuccessful of the handler of kind k
Classify(k, arts) ==
    CASE k = "charge" -> ChargeScan(arts, 1)
      [] k = "payout" -> PayoutScan(arts, 1)
      [] OTHER -> TRUE

\* (a catch block that sends the command again)
AfterAskErrorRetry(q) == [q EXCEPT !.sent = q.sent + 1]

\* (a catch block that answers success)
AfterAskErrorSuccess(q) == [q EXCEPT !.pc = "done", !.resp = "ok"]

\* The catch block of /charge, /payout and /balance
AfterAskError(q) == [q EXCEPT !.pc = "done", !.resp = "fail"]

\* res.json of /charge, /payout and /balance
AfterAskResult(q, arts) ==
    [q EXCEPT !.pc = "done", !.arts = arts, !.echo = q.command,
              !.resp = IF Classify(q.kind, arts) THEN "ok" ELSE "fail"]

\* POST /payout up to its first suspension
PayoutStart(p, accessToken, amount, payeeId) ==
    /\ Free(p)
    /\ LET q == [procs[p] EXCEPT !.kind = "payout",
                                 !.body = [accessToken |-> accessToken, amount |-> amount,
                                           id |-> payeeId]]
       IN  IF PayoutInvalid(accessToken, amount, payeeId) \/ ~env.appWallet
           THEN /\ procs' = [procs EXCEPT ![p] = [q EXCEPT !.pc = "done", !.resp = "fail"]]
                /\ UNCHANGED <<refreshing, calls, outcome>>
           ELSE CallGetToken(p, q)
    /\ UNCHANGED <<now, tokenData, file, timers, env, xvars>>

\* POST /balance up to its first suspension
BalanceStart(p, accessToken) ==
    /\ Free(p)
    /\ LET q == [procs[p] EXCEPT !.kind = "balance"]
       IN  procs' = [procs EXCEPT ![p] =
                        IF ~accessToken
                        THEN [q EXCEPT !.pc = "done", !.resp = "fail"]
                        ELSE [q EXCEPT !.pc = "asking", !.sent = q.sent + 1,
                                       !.command = <<"List all my wallets and their balances">>]]
    /\ UNCHANGED <<now, tokenData, refreshing, file, timers, calls, outcome, env, xvars>>

\* client.ask(command) of /charge, /payout or /balance settles
AskReturn(p, r) ==
    /\ procs[p].pc = "asking"
    /\ procs' = [procs EXCEPT ![p] =
                    IF r.threw
                    THEN AfterAskError([@ EXCEPT !.asked = "threw"])
                    ELSE AfterAskResult([@ EXCEPT !.asked = "returned"], r.arts)]
    /\ UNCHANGED <<now, tokenData, refreshing, file, timers, calls, outcome, env, xvars>>

\* ------------------------------------------------------ payee resolution
\* An artifact of a list or create response is its name and what its content
\* holds: a full payee id (pd- and a uuid), a shorter pd- string, or neither.

\* /oauth/exchange, the scan of the list response from artifact i on: the first
\* artifact named response whose content matches the id pattern
RECURSIVE ListFound(_, _)
ListFound(arts, i) ==
    IF i > Len(arts) THEN FALSE
    ELSE IF arts[i].name = "response" /\ arts[i].id = "uuid" THEN TRUE
    ELSE ListFound(arts, i + 1)

\* /oauth/exchange, the scan of the create response: every artifact named response
\* whose content holds pd- is matched with the pattern, then with the looser one
CreateFound(arts) ==
    \E i \in DOMAIN arts : arts[i].name = "response" /\ arts[i].id \in {"uuid", "short"}

\* /oauth/exchange: res.json(responseData)
ExchangeRespond(q, payeeId) == [q EXCEPT !.pc = "done", !.resp = "ok", !.payee = payeeId]

\* /oauth/exchange: client.ask("list all payees") is sent
ExchangeList(q) == [q EXCEPT !.pc = "x_list", !.sent = q.sent + 1]

\* (a handler that resolves the payee whatever the link check said)
ResolvePayeeAlways(q) == ExchangeList(q)

\* /oauth/exchange: if (needsPayeeId) list the payees, else skip the resolution
ResolvePayee(q) == IF q.needsPayeeId THEN ExchangeList(q) ELSE ExchangeRespond(q, 0)

\* (an error of the payee resolution that reaches the handler's outer catch)
AfterPayeeErrorFatal(q) == [q EXCEPT !.pc = "done", !.resp = "fail"]

\* /oauth/exchange: the catch block around the list and create commands
AfterPayeeError(q) == ExchangeRespond(q, 0)

\* (a handler that does not test the code)
CodeMissingNever(code) == FALSE

\* /oauth/exchange: if (!code)
CodeMissing(code) == ~code

\* POST /oauth/exchange up to its first suspension
ExchangeStart(p, code, u, tg) ==
    /\ Free(p)
    /\ LET q == [procs[p] EXCEPT !.kind = "exchange", !.user = u, !.tg = tg, !.code = code]
       IN  procs' = [procs EXCEPT ![p] =
                        IF CodeMissing(code)
                        THEN [q EXCEPT !.pc = "done", !.resp = "fail"]
                        ELSE [q EXCEPT !.pc = "x_token", !.made = q.made + 1]]
    /\ UNCHANGED <<now, tokenData, refreshing, file, timers, calls, outcome, env, xvars>>

\* /oauth/exchange: client.getAccessToken() settles; then the payee link check is
\* fetched, or the payees are listed
ExchangeTokenReturn(p, ok) ==
    /\ procs[p].pc = "x_token"
    /\ LET q == procs[p]
       IN  procs' = [procs EXCEPT ![p] =
                        IF ~ok
                        THEN [q EXCEPT !.pc = "done", !.resp = "fail"]
                        ELSE IF q.tg /\ env.backendUrl
                             THEN [q EXCEPT !.tok = q.user, !.pc = "x_check",
                                            !.checked = TRUE]
                             ELSE ResolvePayee([q EXCEPT !.tok = q.user])]
    /\ UNCHANGED <<now, tokenData, refreshing, file, timers, calls, outcome, env, xvars>>

\* /oauth/exchange: fetch(checkUrl) settles with r: "ok" (the collaborator's answer),
\* "notok" (a non-OK status) or "throw"
ExchangeCheckReturn(p, r) ==
    /\ procs[p].pc = "x_check"
    /\ LET needsPayeeId == ~(r = "ok" /\ procs[p].user \in linked)
           q == [procs[p] EXCEPT !.needsPayeeId = needsPayeeId]
       IN  procs' = [procs EXCEPT ![p] = ResolvePayee(q)]
    /\ UNCHANGED <<now, tokenData, refreshing, file, timers, calls, outcome, env, xvars>>

\* /oauth/exchange: client.ask("list all payees") settles; an id found is the
\* payee, otherwise the create command is sent
ExchangeListReturn(p, r) ==
    /\ procs[p].pc = "x_list"
    /\ LET q == procs[p]
       IN  IF r.threw
           THEN procs' = [procs EXCEPT ![p] = AfterPayeeError(q)] /\ UNCHANGED created
           ELSE IF ListFound(r.arts, 1)
                THEN /\ payees[q.user] > 0
                     /\ procs' = [procs EXCEPT ![p] = ExchangeRespond(q, 1)]
                     /\ UNCHANGED created
                ELSE /\ procs' = [procs EXCEPT ![p] =
                                     [q EXCEPT !.pc = "x_create", !.sent = q.sent + 1]]
                     /\ created' = [created EXCEPT ![q.user] = @ + 1]
    /\ UNCHANGED <<now, tokenData, refreshing, file, timers, calls, outcome, env,
                   linked, payees>>

\* /oauth/exchange: the create command settles; r.made says whether the provider
\* created the payee
ExchangeCreateReturn(p, r) ==
    /\ procs[p].pc = "x_create"
    /\ LET q == procs[p]
           n == IF r.made THEN payees[q.user] + 1 ELSE payees[q.user]
       IN  /\ payees' = [payees EXCEPT ![q.user] = n]
           /\ procs' = [procs EXCEPT ![p] =
                           IF r.threw THEN AfterPayeeError(q)
                           ELSE IF CreateFound(r.arts) /\ r.made
                                THEN ExchangeRespond(q, n)
                                ELSE ExchangeRespond(q, 0)]
    /\ UNCHANGED <<now, tokenData, refreshing, file, timers, calls, outcome, env,
                   linked, created>>

\* The collaborator stores the payee id an exchange returned for its user
CollaboratorLink(p) ==
    /\ procs[p].kind = "exchange"
    /\ procs[p].pc = "done"
    /\ procs[p].tg
    /\ procs[p].payee # 0
    /\ procs[p].user \notin linked
    /\ linked' = linked \cup {procs[p].user}
    /\ UNCHANGED <<now, tokenData, refreshing, file, timers, calls, outcome, env,
                   payees, created, procs>>

\* ------------------------------------------------------ specifications

FullEnv == [clientCreds |-> TRUE, appWallet |-> TRUE, appPayee |-> TRUE, backendUrl |-> TRUE]

\* What app-token.json may hold when the process starts: nothing readable, a record
\* of an earlier run (expired, due, or good for a while), or a record lacking a field
FileContents ==
    {NullToken}
    \cup {[accessToken |-> StoredToken, expiresIn |-> DefaultExpiresIn,
           expiresAt |-> e, refreshedAt |-> e - DefaultExpiresIn] : e \in {1, 10, 30}}
    \cup {[accessToken |-> 0, expiresIn |-> DefaultExpiresIn, expiresAt |-> 30,
           refreshedAt |-> 30 - DefaultExpiresIn],
          [accessToken |-> StoredToken, expiresIn |-> DefaultExpiresIn, expiresAt |-> 0,
           refreshedAt |-> 0]}

\* The state after the module is loaded and the TokenManager constructed
InitBase ==
    /\ now = 1
    /\ tokenData = NullToken
    /\ refreshing = FALSE
    /\ timers = <<>>
    /\ calls = 0
    /\ outcome = <<>>
    /\ linked = {}
    /\ payees = [u \in Users |-> 0]
    /\ created = [u \in Users |-> 0]
    /\ procs = [p \in Procs |-> IdleProc]

\* The responses of the provider's token endpoint
TokenResponses ==
    {[ok |-> FALSE, expiresIn |-> 0]} \cup {[ok |-> TRUE, expiresIn |-> e] : e \in {0, 16}}

Init ==
    /\ InitBase
    /\ file \in FileContents
    /\ env = FullEnv

\* The TokenManager with its callers: /charge, /refresh-token, the timer, initialize().
\* How the command of a charge settles is the matter of SpecGateway; here it returns.
Next ==
    \/ Listen
    \/ LoadDone
    \/ \E p \in Reqs : ChargeStart(p, 1, TRUE)
    \/ \E p \in Reqs : RefreshTokenStart(p)
    \/ \E p \in Reqs, i \in 1..NProc : TimerFire(i, p)
    \/ \E p \in Procs, r \in TokenResponses : ProviderTokenReturn(p, r)
    \/ \E p \in Procs, ok \in BOOLEAN : SaveDone(p, ok)
    \/ \E p \in Procs : Poll(p)
    \/ \E p \in Reqs : AskReturn(p, [threw |-> FALSE, arts |-> <<>>])
    \/ Tick

Spec == Init /\ [][Next]_vars

\* The same, with no request served and no timer due before readFile has settled
NextLoaded ==
    IF procs[0].pc = "loading" THEN LoadDone \/ Tick ELSE Next

SpecLoaded == Init /\ [][NextLoaded]_vars

\* ---- the TokenManager under a stream of requests: a request that was answered
\* leaves its slot to the next one

\* The provider token calls that a process other than p, tokenData or the file
\* still refer to
CallsInUse(p) ==
    ({procs[q].joined : q \in Procs \ {p}} \cup {procs[q].rel : q \in Procs \ {p}}
     \cup {tokenData.accessToken, file.accessToken}) \cap (0..calls)

\* The greatest number of S
Top(S) == CHOOSE n \in S : \A m \in S : m <= n

\* The request or timer callback of slot p is over: its record is dropped, and so are
\* the latest provider calls that nothing refers to any more
Recycle(p) ==
    /\ procs[p].pc = "done"
    /\ procs' = [procs EXCEPT ![p] = IdleProc]
    /\ calls' = Top(CallsInUse(p) \cup {0})
    /\ outcome' = SubSeq(outcome, 1, calls')
    /\ UNCHANGED <<now, tokenData, refreshing, file, timers, env, xvars>>

InitLive ==
    /\ InitBase
    /\ file = NullToken
    /\ env = FullEnv

NextLive ==
    \/ Listen
    \/ LoadDone
    \/ \E p \in Reqs : calls < MaxCalls /\ ChargeStart(p, 1, TRUE)
    \/ \E p \in Reqs : calls < MaxCalls /\ RefreshTokenStart(p)
    \/ \E p \in Reqs, i \in 1..NProc : calls < MaxCalls /\ TimerFire(i, p)
    \/ \E p \in Procs, r \in TokenResponses : ProviderTokenReturn(p, r)
    \/ \E p \in Procs : SaveDone(p, TRUE)
    \/ \E p \in Procs : Poll(p)
    \/ \E p \in Reqs : AskReturn(p, [threw |-> FALSE, arts |-> <<>>])
    \/ \E p \in Reqs : Recycle(p)
    \/ Tick

\* Every provider call, file write and file read settles, and the polling interval
\* of a waiter keeps running: a callback that stays ready is run.  Nothing is
\* assumed about when requests arrive.
FairLive ==
    /\ WF_vars(LoadDone)
    /\ \A p \in Procs :
          /\ WF_vars(\E r \in TokenResponses : ProviderTokenReturn(p, r))
          /\ WF_vars(SaveDone(p, TRUE))
          /\ WF_vars(Poll(p))
    /\ \A p \in Reqs : WF_vars(AskReturn(p, [threw |-> FALSE, arts |-> <<>>]))

SpecLive == InitLive /\ [][NextLive]_vars /\ FairLive

\* ---- the gateway: one request of /charge, /payout or /balance and its response

\* The texts an artifact may hold: none of the phrases, one, or a positive phrase
\* together with a negative one
Contents ==
    {{}} \cup {{a} : a \in Phrases}
         \cup {{a, b} : a \in ChargePositive, b \in ChargeNegative}

ArtifactLists == UNION {[1..n -> Contents] : n \in 0..MaxArtifacts}

\* How client.ask settles: it throws, or returns a result with its artifacts
AskResults ==
    {[threw |-> TRUE, arts |-> <<>>]} \cup {[threw |-> FALSE, arts |-> a] : a \in ArtifactLists}

\* amount of the request body: 0 stands for a missing or zero amount
Amounts == {-1, 0, 1}

InitGateway ==
    /\ InitBase
    /\ file = NullToken
    /\ env \in {[FullEnv EXCEPT !.appWallet = w, !.appPayee = y] : w, y \in BOOLEAN}

NextGateway ==
    \/ Listen
    \/ LoadDone
    \/ \E a \in Amounts, u \in BOOLEAN : ChargeStart(1, a, u)
    \/ \E t \in BOOLEAN, a \in Amounts, y \in BOOLEAN : PayoutStart(1, t, a, y)
    \/ \E t \in BOOLEAN : BalanceStart(1, t)
    \/ \E p \in Procs, ok \in BOOLEAN : ProviderTokenReturn(p, [ok |-> ok, expiresIn |-> 0])
    \/ \E p \in Procs : SaveDone(p, TRUE)
    \/ \E p \in Procs : Poll(p)
    \/ procs[1].pc = "asking" /\ \E r \in AskResults : AskReturn(1, r)

SpecGateway == InitGateway /\ [][NextGateway]_vars

\* ---- the payee resolution: /oauth/exchange requests, the provider's payees and
\* the collaborator's links

XArtifacts ==
    UNION {[1..n -> [name : {"response", "other"}, id : {"none", "uuid", "short"}]] :
           n \in 0..MaxArtifacts}

\* How the list and create commands settle
XResults ==
    {[threw |-> TRUE, made |-> m, arts |-> <<>>] : m \in BOOLEAN}
    \cup {[threw |-> FALSE, made |-> m, arts |-> a] : m \in BOOLEAN, a \in XArtifacts}

\* What the handler reads of a result: whether the command threw, whether the
\* payee was made, and what the two scans find in the artifacts
XRead(r) == <<r.threw, r.made, ListFound(r.arts, 1), CreateFound(r.arts)>>

\* One result for each way the handler can read the results
XCases == {CHOOSE r \in XResults : XRead(r) = c : c \in {XRead(r) : r \in XResults}}

InitExchange ==
    /\ InitBase
    /\ file = NullToken
    /\ env \in {[FullEnv EXCEPT !.backendUrl = b] : b \in BOOLEAN}

NextExchange ==
    \/ Listen
    \/ \E p \in Reqs, c \in BOOLEAN, u \in Users, tg \in BOOLEAN : ExchangeStart(p, c, u, tg)
    \/ \E p \in Reqs, ok \in BOOLEAN : ExchangeTokenReturn(p, ok)
    \/ \E p \in Reqs, r \in {"ok", "notok", "throw"} : ExchangeCheckReturn(p, r)
    \/ \E p \in Reqs : procs[p].pc = "x_list" /\ \E r \in XCases : ExchangeListReturn(p, r)
    \/ \E p \in Reqs : procs[p].pc = "x_create" /\ \E r \in XCases : ExchangeCreateReturn(p, r)
    \/ \E p \in Reqs : CollaboratorLink(p)

SpecExchange == InitExchange /\ [][NextExchange]_vars

\* ------------------------------------------------------------ properties

Returned(p) == procs[p].pc \in {"asking", "done"}
IsGetToken(p) == procs[p].kind \in {"charge", "payout"}
HasPositive(arts) == \E i \in DOMAIN arts : arts[i] \cap ChargePositive # {}
HasNegative(arts) == \E i \in DOMAIN arts : arts[i] \cap ChargeNegative # {}

\* C1: at every moment at most one provider token call of the TokenManager is in
\* flight, whoever calls refreshToken() (a handler's getToken, the timer,
\* /refresh-token, initialize) while a refresh is in flight.
C1_SingleFlight == Cardinality({p \in Procs : procs[p].pc = "refreshing"}) <= 1

\* A refreshToken() was called while a provider call was in flight, and waits.
C1_Witness ==
    \E p, q \in Procs : procs[p].pc = "refreshing" /\ procs[q].pc = "waiting"

\* C2: of two getToken() calls that found the token due, the second made while the
\* refresh started by the first was in flight, one provider call serves both and
\* both get the same result.
C2_ConcurrentGetTokenSameResult ==
    \A p, q \in Reqs :
        (/\ p # q /\ IsGetToken(p) /\ IsGetToken(q)
         /\ Returned(p) /\ Returned(q)
         /\ procs[p].made = 1 /\ procs[q].made = 0
         /\ procs[q].joined = procs[p].joined)
        => /\ procs[q].rel = procs[p].rel
           /\ procs[q].threw = procs[p].threw
           /\ procs[q].tok = procs[p].tok

\* C3: the access token a getToken() call returns belongs to a record that has not
\* expired at the time of the return.
C3_NeverReturnsExpired ==
    \A p \in Reqs : (IsGetToken(p) /\ procs[p].tok > 0) => procs[p].live

\* C4: a getToken() call whose refresh failed, the one it started or the one whose
\* end it waited for, fails with an error.
C4_FailurePropagates ==
    \A p \in Reqs :
        (IsGetToken(p) /\ Returned(p) /\ procs[p].rel # 0 /\ outcome[procs[p].rel] = "fail")
        => procs[p].threw

\* C5: a charge or payout whose response holds a negative term in some artifact
\* reports success = false.
C5_NegativeWins ==
    \A p \in Reqs :
        (IsGetToken(p) /\ procs[p].pc = "done" /\ HasNegative(procs[p].arts))
        => procs[p].resp = "fail"

\* C6: a charge or payout reports success = true only if some artifact of the
\* response holds a positive term; without artifacts, or with none of the terms in
\* any artifact, it reports success = false.
C6_FailClosed ==
    \A p \in Reqs :
        (IsGetToken(p) /\ procs[p].pc = "done" /\ ~HasPositive(procs[p].arts))
        => procs[p].resp = "fail"

\* A payout got a response whose artifacts hold none of the terms.
C6_Witness ==
    \E p \in Reqs :
        /\ procs[p].kind = "payout" /\ procs[p].pc = "done"
        /\ Len(procs[p].arts) > 0
        /\ ~HasPositive(procs[p].arts) /\ ~HasNegative(procs[p].arts)
        /\ procs[p].resp = "fail"

\* C7: a charge or payout whose response holds a positive term in some artifact and
\* a negative term in none reports success = true.
C7_PositiveWins ==
    \A p \in Reqs :
        (/\ IsGetToken(p) /\ procs[p].pc = "done"
         /\ HasPositive(procs[p].arts) /\ ~HasNegative(procs[p].arts))
        => procs[p].resp = "ok"

\* C8: a charge, payout or balance request sends at most one command to the
\* provider.
C8_AtMostOneCommand ==
    \A p \in Reqs :
        procs[p].kind \in {"charge", "payout", "balance"} => procs[p].sent <= 1

\* A charge sent its command and answered with a failure.
C8_Witness ==
    \E p \in Reqs :
        /\ procs[p].kind = "charge" /\ procs[p].pc = "done"
        /\ procs[p].sent = 1 /\ procs[p].resp = "fail"

\* C9: at most one create-payee command is sent to the provider for a user.
C9_OneCreatePerUser == \A u \in Users : created[u] <= 1

\* C10: the step in which a refreshToken() fails leaves tokenData and the token
\* file as they were.
C10_FailedRefreshKeepsRecords ==
    [][\A p \in Procs :
          (/\ procs[p].pc = "refreshing"
           /\ outcome[procs[p].joined] = "pending"
           /\ outcome'[procs[p].joined] = "fail")
          => (tokenData' = tokenData /\ file' = file)]_vars

\* A refresh has failed while a token of an earlier refresh was held.
C10_Witness ==
    /\ tokenData.accessToken # 0
    /\ \E k \in DOMAIN outcome : outcome[k] = "fail" /\ k > tokenData.accessToken

\* C11: the step in which a refreshToken() succeeds (its saveTokenToFile() has
\* settled) leaves the token file equal to tokenData, and that record is the one
\* made from the response of this refresh's own provider call.
C11_SuccessfulRefreshPersists ==
    [][\A p \in Procs :
          (procs[p].pc = "saving" /\ procs'[p].pc # "saving")
          => (file' = tokenData' /\ tokenData'.accessToken = procs[p].joined)]_vars

\* C12: in the step in which a refresh started by the timer succeeds, a timer is
\* pending that fires 15 minutes before the expiry of the token this refresh
\* produced, and no sooner than 1 minute from now.
C12_TimerFollowsNewToken ==
    [][\A p \in Reqs :
          (procs[p].kind = "timer" /\ procs[p].pc = "saving" /\ procs'[p].pc = "done")
          => \E i \in DOMAIN timers' :
                timers'[i] = now + Max(tokenData'.expiresAt - now - FifteenMinutes, OneMinute)]_vars

\* C13: in the step in which initialize() finishes it has made at most one provider
\* call of its own (one refresh when the stored record was absent, corrupt or due),
\* and it has scheduled a timer.
C13_InitializeRefreshesOnceAndSchedules ==
    [][(procs[0].pc # "done" /\ procs'[0].pc = "done")
       => (procs'[0].made <= 1 /\ Len(timers') = Len(timers) + 1)]_vars

\* C14: once a timer of the background renewal is pending, one is pending in every
\* later state: the callback of a timer that fires sets the next timer whether the
\* refresh it starts succeeds or fails.
C14_RenewalStaysScheduled == [][timers # <<>> => timers' # <<>>]_vars

\* A refresh started by the timer has failed, and a timer is pending.
C14_Witness ==
    \E p \in Reqs :
        /\ procs[p].kind = "timer" /\ procs[p].pc = "done" /\ procs[p].threw
        /\ timers # <<>>

IsExchange(p) == procs[p].kind = "exchange"

\* C15: an /oauth/exchange request whose link check found a payee link for the user
\* sends no list and no create command to the provider.
C15_LinkedUserNoPayeeCommand ==
    \A p \in Reqs : (IsExchange(p) /\ ~procs[p].needsPayeeId) => procs[p].sent = 0

\* Two exchanges of one user: the first resolved a payee, the second found the link
\* and answered.
C15_Witness ==
    \E p, q \in Reqs :
        /\ IsExchange(p) /\ IsExchange(q) /\ procs[p].user = procs[q].user
        /\ procs[p].payee # 0
        /\ ~procs[q].needsPayeeId /\ procs[q].pc = "done" /\ procs[q].resp = "ok"

\* C16: an /oauth/exchange that answers with an access token and a payee id, for a
\* user who has no payee link, has sent exactly one payee command to the provider.
C16_OnePayeeCommand ==
    [][\A p \in Reqs :
          (/\ IsExchange(p) /\ procs[p].pc # "done" /\ procs'[p].pc = "done"
           /\ procs[p].user \notin linked
           /\ procs'[p].resp = "ok" /\ procs'[p].tok = procs[p].user /\ procs'[p].payee # 0)
          => procs'[p].sent = 1]_vars

\* C17: an /oauth/exchange that fails has sent no list or create command and has not
\* asked the collaborator; without a code it has not called the provider at all.
C17_RejectedExchangeCallsNothing ==
    \A p \in Reqs :
        (IsExchange(p) /\ procs[p].pc = "done" /\ procs[p].resp = "fail")
        => /\ procs[p].sent = 0
           /\ ~procs[p].checked
           /\ (~procs[p].code => procs[p].made = 0)

\* One exchange was rejected for its missing code, another failed at the provider's
\* token call.
C17_Witness ==
    \E p, q \in Reqs :
        /\ IsExchange(p) /\ procs[p].pc = "done" /\ procs[p].resp = "fail" /\ ~procs[p].code
        /\ IsExchange(q) /\ procs[q].pc = "done" /\ procs[q].resp = "fail" /\ procs[q].code
        /\ procs[q].made = 1

LacksField(q) ==
    \/ q.kind = "charge" /\ (q.body.amount = 0 \/ ~q.body.id)
    \/ q.kind = "payout" /\ (~q.body.accessToken \/ q.body.amount = 0 \/ ~q.body.id)

\* C19: a charge without amount or userId, and a payout without accessToken, amount
\* or payeeId, is answered with a failure in the step in which it arrives: it has
\* called no refreshToken() and sent no command, and the step leaves the token
\* state (tokenData, the flag, the file, the timers, the provider calls) as it was.
C19_InvalidRequestTouchesNothing ==
    [][\A p \in Reqs :
          LacksField(procs'[p])
          => /\ procs'[p].pc = "done" /\ procs'[p].resp = "fail"
             /\ procs'[p].sent = 0 /\ procs'[p].made = 0 /\ procs'[p].joined = 0
             /\ (procs[p].pc = "idle"
                 => UNCHANGED <<tokenData, refreshing, file, timers, calls, outcome>>)]_vars

\* A request that holds an amount but lacks another field was rejected, and the
\* token held after initialize() is one that getToken() would have refreshed.
C19_Witness ==
    \E p \in Reqs :
        /\ LacksField(procs[p]) /\ procs[p].pc = "done"
        /\ procs[p].body.amount # 0
        /\ procs[0].pc = "done" /\ ShouldRefreshToken(tokenData, now)

\* C20: a charge or payout that has sent its command has an amount above zero.
C20_AmountPositive ==
    \A p \in Reqs : (IsGetToken(p) /\ procs[p].sent > 0) => procs[p].body.amount > 0

IsCommand(p) == procs[p].kind \in {"charge", "payout", "balance"}

\* C21: a charge, payout or balance request whose client.ask threw answers
\* success = false.
C21_ProviderErrorFails ==
    \A p \in Reqs :
        (IsCommand(p) /\ procs[p].asked = "threw")
        => (procs[p].pc = "done" /\ procs[p].resp = "fail")

\* The command of a payout and the command of a balance request can throw.
C21_Witness ==
    \E p \in Reqs :
        /\ procs[p].kind \in {"payout", "balance"} /\ procs[p].asked = "threw"
        /\ procs[p].sent = 1 /\ procs[p].resp = "fail"

\* C22: the command a charge has sent takes the amount from the wallet userId to the
\* payee APP_PAYEE_ID, the command a payout has sent takes it from the wallet
\* APP_WALLET_ID to the payee payeeId, both with the amount and the description of
\* the request; and the command of the response is the command that was sent.
C22_CommandNamesParties ==
    \A p \in Reqs :
        (IsGetToken(p) /\ procs[p].sent > 0)
        => LET c == procs[p].command
           IN  /\ Len(c) = 9
               /\ c[2] = procs[p].body.amount
               /\ c[8] = "description"
               /\ procs[p].kind = "charge" => (c[4] = "userId" /\ c[6] = "APP_PAYEE_ID")
               /\ procs[p].kind = "payout" => (c[4] = "APP_WALLET_ID" /\ c[6] = "payeeId")
               /\ procs[p].asked = "returned" => procs[p].echo = c

\* A charge has answered success with the command it sent.
C22_Witness ==
    \E p \in Reqs :
        /\ procs[p].kind = "charge" /\ procs[p].asked = "returned"
        /\ procs[p].echo # <<>> /\ procs[p].resp = "ok"

\* C23: a request is served only by a process whose environment holds the client
\* credentials, the application wallet id and the application payee id.
C23_ServesOnlyConfigured ==
    (\E p \in Reqs : procs[p].kind # "none")
    => (env.clientCreds /\ env.appWallet /\ env.appPayee)

\* A token is held and expires more than 15 minutes from now.
NotDue == tokenData.accessToken # 0 /\ tokenData.expiresAt > now + FifteenMinutes

\* C24: the getToken() of a charge that arrives while the token is not due returns
\* the access token held, with no refreshToken() call, and leaves tokenData, the
\* flag, the provider calls, the file and the timers as they were; when the token
\* is absent or expires within 15 minutes it calls refreshToken().
C24_GetTokenFrame ==
    [][\A p \in Reqs :
          (/\ procs[p].pc = "idle" /\ procs'[p].kind = "charge"
           /\ ~LacksField(procs'[p]) /\ env.appPayee)
          => IF NotDue
             THEN /\ procs'[p].pc = "asking"
                  /\ procs'[p].tok = tokenData.accessToken
                  /\ procs'[p].made = 0 /\ procs'[p].joined = 0
                  /\ UNCHANGED <<tokenData, refreshing, calls, outcome, file, timers>>
             ELSE procs'[p].pc \in {"refreshing", "waiting"}]_vars

\* A charge got the token held without a refresh while another caller's refresh
\* was in flight.
C24_Witness ==
    \E p \in Reqs :
        /\ procs[p].kind = "charge" /\ procs[p].pc = "asking"
        /\ procs[p].joined = 0 /\ procs[p].tok # 0
        /\ refreshing

\* C25: a charge or payout whose getToken() threw or returned no token has answered
\* with a failure and has built and sent no command; one that has sent its command
\* had obtained a token before.
C25_TokenBeforeCommand ==
    \A p \in Reqs :
        IsGetToken(p)
        => /\ (procs[p].threw \/ procs[p].tok = 0)
              => /\ procs[p].pc = "done" /\ procs[p].resp = "fail"
                 /\ procs[p].sent = 0 /\ procs[p].command = <<>>
           /\ procs[p].sent > 0 => procs[p].tok > 0

\* The getToken() of a payout returned no token.
C25_Witness ==
    \E p \in Reqs :
        /\ procs[p].kind = "payout" /\ procs[p].pc = "done"
        /\ procs[p].tok = 0 /\ ~procs[p].threw /\ procs[p].sent = 0

\* C26: a request or timer callback that waits in refreshToken() for the refresh in
\* flight eventually leaves the wait.
C26_WaiterCompletes ==
    \A p \in Reqs : (procs[p].pc = "waiting") ~> (procs[p].pc # "waiting")

\* Artifact i of arts holds a positive or a negative term.
Decisive(arts, i) == arts[i] \cap (ChargePositive \cup ChargeNegative) # {}

\* C27: the answer of a charge whose command returned is fixed by the first
\* artifact that holds a positive or a negative term: success if it holds a
\* positive term (whatever negative term it also holds), failure otherwise, and
\* failure when no artifact holds a term; later artifacts do not count.
C27_FirstDecisiveArtifact ==
    \A p \in Reqs :
        (procs[p].kind = "charge" /\ procs[p].asked = "returned")
        => LET arts == procs[p].arts
               first == {i \in DOMAIN arts :
                            Decisive(arts, i) /\ \A j \in 1..(i - 1) : ~Decisive(arts, j)}
           IN  procs[p].resp = "ok"
               <=> \E i \in first : arts[i] \cap ChargePositive # {}

\* A charge failed on a negative term in its first artifact although the second
\* artifact holds a positive term.
C27_Witness ==
    \E p \in Reqs :
        /\ procs[p].kind = "charge" /\ procs[p].asked = "returned"
        /\ Len(procs[p].arts) = 2
        /\ procs[p].arts[1] \cap ChargeNegative # {}
        /\ procs[p].arts[1] \cap ChargePositive = {}
        /\ procs[p].arts[2] \cap ChargePositive # {}
        /\ procs[p].resp = "fail"

\* C28: the refreshing flag is set exactly while some refreshToken() is at its
\* provider call or at its file write; once that refresh has ended, with a token,
\* with a provider error or with a write error, the flag is clear.
C28_FlagOnlyWhileRefreshing ==
    refreshing <=> \E p \in Procs : procs[p].pc \in {"refreshing", "saving"}

\* The refresh that made the token held has ended without the token reaching the
\* file, a refresh before it had failed, and the flag is clear.
C28_Witness ==
    /\ ~refreshing
    /\ tokenData.accessToken \in 2..calls
    /\ file # tokenData
    /\ outcome[1] = "fail"
    /\ procs[0].pc = "done"

\* C29: at most one timer of the background renewal is pending.
C29_OneTimerPending == Len(timers) <= 1

\* A timer has fired and its successor is pending, after a refresh that a charge or
\* a /refresh-token request started.
C29_Witness ==
    /\ Len(timers) = 1
    /\ \E p, q \in Reqs :
          /\ procs[p].kind = "timer"
          /\ procs[q].kind \in {"charge", "refresh"} /\ procs[q].made = 1
          /\ procs[q].pc \in {"asking", "done"}

\* C30: a /refresh-token request answers success only if the refresh it started or
\* waited for succeeded, and then with the token of that refresh; if that refresh
\* failed it answers with a failure.
C30_RefreshTokenReportsItsRefresh ==
    \A p \in Reqs :
        (procs[p].kind = "refresh" /\ procs[p].pc = "done")
        => /\ procs[p].resp = "ok"
              => (outcome[procs[p].rel] = "ok" /\ procs[p].tok = procs[p].rel)
           /\ outcome[procs[p].rel] = "fail" => procs[p].resp = "fail"

=============================================================================
